---- MODULE Spec2Model ----
(***************************************************************************)
(* A state-machine model of the Flappy-Bird game in src/src/main.rs.       *)
(*                                                                         *)
(* One frame of the engine's Main schedule is                              *)
(*   StateTransition ; FixedUpdate x n ; Update                            *)
(* and the model has one action per step of it.  All lengths and speeds    *)
(* are integers, FP units per pixel, and every sum the program computes    *)
(* is rounded as f32 rounds it (F32).  With the engine's fixed timestep of *)
(* 1/64 s the positions and velocities of a round are multiples of 1/256   *)
(* below 2^16, which f32 holds exactly; the random bottom_pos of a pipe    *)
(* pair is any f32 of its range, and the sums made from it are rounded.    *)
(***************************************************************************)
EXTENDS Integers, Sequences, FiniteSets, TLC

(***************************************************************************)
(* Program constants (pixels, pixels per second, seconds).                 *)
(***************************************************************************)
WINDOW_SIZE_X == 1280
WINDOW_SIZE_Y == 720
GRAVITY_STRENGTH == 2000
JUMP_STRENGTH == 800
PIPE_SPEED == 450
PIPE_GAP == 225
PLAYER_SIZE_X == 32
PLAYER_SIZE_Y == 32
PIPE_WIDTH == 32
PIPE_HEIGHT == WINDOW_SIZE_Y
PLAYER_START_X == 320
CEILING_MARGIN == 100
TIMER_SECS == 2
FIXED_HZ == 64
FP == 65536
\* an f32 has 24 significant bits
MANT == 16777216

(***************************************************************************)
(* Bounds of the model.                                                    *)
(***************************************************************************)
\* fixed ticks the engine runs in one frame
TicksPerFrame == 16
\* fixed ticks of one round after which the model stops ticking
MaxRoundTicks == 520

Px(n) == n * FP

\* the distance between neighbouring f32 values at magnitude a, in units of 1/FP
RECURSIVE Ulp(_)
Ulp(a) == IF a < MANT THEN 1 ELSE 2 * Ulp(a \div 2)

\* the f32 nearest to v, ties to the even mantissa
Nearest(v) ==
  LET a == IF v < 0 THEN -v ELSE v
      u == Ulp(a)
      q == a \div u
      r == a % u
      m == IF 2 * r > u \/ (2 * r = u /\ q % 2 = 1) THEN q + 1 ELSE q
  IN  IF v < 0 THEN -(m * u) ELSE m * u

\* the result of an f32 operation whose exact result is v: v itself where v is an f32 (as
\* every multiple of 8 units below 2^27 is), and the f32 nearest to v otherwise
F32(v) == IF v % 8 = 0 /\ -8 * MANT < v /\ v < 8 * MANT THEN v ELSE Nearest(v)
MICROS == 1000000
Delta == MICROS \div FIXED_HZ
TimesElapsed(v) == v \div FIXED_HZ

\* the range of rng().random_range(-360.0 .. 135.0), and the values the game draws from it
\* in the model: its lowest value and 135 - 2^-14
BottomLow == -Px(WINDOW_SIZE_Y) \div 2
BottomHigh == Px(WINDOW_SIZE_Y) \div 2 - Px(PIPE_GAP)
BottomPositions == { BottomLow, BottomHigh - 4 }

\* the rhythms of the Space key: a press follows the previous press (or the start of the
\* round) by one frame or by MaxTapGap frames
MaxTapGap == 4
TapGaps == { 1, MaxTapGap }

States == {"InGame", "GameOver"}
Unchanged == "Unchanged"

Systems ==
  { "apply_acceleration", "apply_velocity", "handle_pipe_spawn", "handle_pipe_despawn",
    "check_player_pipe_collission", "check_player_screen_bounds",
    "give_score_when_over_player", "update_score" }

PhysSystems == { "apply_acceleration", "apply_velocity", "check_player_screen_bounds" }

VARIABLES
  state,       \* State<GameStates>
  next,        \* NextState<GameStates>: Unchanged or the pending state
  players,     \* the entities with Player: Transform, Velocity, Acceleration
  pipes,       \* the entities with Pipe: Transform, Velocity, Pipe
  score,       \* GameScore
  text,        \* the Text of the Scoretext entity
  timer,       \* PipeSpawnTimer.timer
  physOrder,   \* the order in which the schedule runs the three systems on the player's Velocity
  pc,          \* the step of the frame that runs next
  ticksLeft,   \* fixed ticks left in this frame
  roundTicks,  \* InGame fixed ticks run since the state was entered
  idle,        \* frames since Space was last pressed in this round
  cause,       \* why the pending NextState was set: "hit", "fell", "r" (history)
  last         \* what the last step did (history)

vars ==
  << state, next, players, pipes, score, text, timer, physOrder, pc, ticksLeft, roundTicks, idle, cause, last >>

(***************************************************************************)
(* Pure helpers.                                                           *)
(***************************************************************************)
RECURSIVE Digits(_)
Digits(n) == IF n < 10 THEN << n >> ELSE Digits(n \div 10) \o << n % 10 >>

\* format!("Score: {}", score)
Format(n) == IF n < 0 THEN << "Score: ", "-" >> \o Digits(-n) ELSE << "Score: " >> \o Digits(n)

Gravity == [x |-> 0, y |-> -Px(GRAVITY_STRENGTH)]

make_player ==
  [ x |-> -Px(PLAYER_START_X), y |-> 0, sx |-> Px(PLAYER_SIZE_X), sy |-> Px(PLAYER_SIZE_Y),
    vx |-> 0, vy |-> 0, ax |-> Gravity.x, ay |-> Gravity.y ]

\* a faulty PipeBundle::new: y is taken as the centre of the pipe, not as its top edge
PipeBundle_Centred(height, y, give_score) ==
  [ x |-> Px(WINDOW_SIZE_X) \div 2, y |-> y, sx |-> Px(PIPE_WIDTH), sy |-> height,
    vx |-> -Px(PIPE_SPEED), vy |-> 0, give_score |-> give_score ]

\* PipeBundle::new
PipeBundle(height, y, give_score) ==
  [ x |-> Px(WINDOW_SIZE_X) \div 2, y |-> F32(y - height \div 2), sx |-> Px(PIPE_WIDTH), sy |-> height,
    vx |-> -Px(PIPE_SPEED), vy |-> 0, give_score |-> give_score ]

NewTimer == [elapsed |-> 0, finished |-> FALSE]

\* a faulty timer: it completes every half second
TimerDuration_HalfSecond == MICROS \div 2

TimerDuration == TIMER_SECS * MICROS

\* Timer::tick of a repeating timer
TimerTick(t, delta) ==
  LET e == t.elapsed + delta
      fin == e >= TimerDuration
  IN  [elapsed |-> IF fin THEN e % TimerDuration ELSE e, finished |-> fin]

\* Aabb2d::new(translation, scale / 2)
Aabb(e) ==
  [ minx |-> F32(e.x - e.sx \div 2), maxx |-> F32(e.x + e.sx \div 2),
    miny |-> F32(e.y - e.sy \div 2), maxy |-> F32(e.y + e.sy \div 2) ]

\* Aabb2d::intersects
Intersects(a, b) ==
  /\ a.minx <= b.maxx /\ a.maxx >= b.minx
  /\ a.miny <= b.maxy /\ a.maxy >= b.miny

(***************************************************************************)
(* The FixedUpdate systems.  Each maps the world w at its start to the     *)
(* world at its end; w.spawn and w.despawn are the Commands it queued.     *)
(***************************************************************************)
World ==
  [ players |-> players, pipes |-> pipes, score |-> score, text |-> text, timer |-> timer,
    next |-> next, spawn |-> << >>, despawn |-> {}, now |-> roundTicks, cause |-> cause ]

\* a system with a Single<_, With<Player>> parameter runs only with exactly one player
HasSingle(w) == Len(w.players) = 1

\* a faulty apply_acceleration: the acceleration is added without the elapsed time
Accelerate_NoElapsed(e) == [e EXCEPT !.vx = @ + e.ax, !.vy = @ + e.ay]

Accelerate(e) ==
  [e EXCEPT !.vx = F32(@ + TimesElapsed(e.ax)), !.vy = F32(@ + TimesElapsed(e.ay))]

apply_acceleration(w) ==
  [w EXCEPT !.players = [i \in DOMAIN w.players |-> Accelerate(w.players[i])]]

\* a faulty apply_velocity: the two components of the velocity are swapped
Move_Swapped(e) ==
  [e EXCEPT !.x = @ + TimesElapsed(e.vy), !.y = @ + TimesElapsed(e.vx)]

Move(e) ==
  [e EXCEPT !.x = F32(@ + TimesElapsed(e.vx)), !.y = F32(@ + TimesElapsed(e.vy))]

apply_velocity(w) ==
  [w EXCEPT !.players = [i \in DOMAIN w.players |-> Move(w.players[i])],
            !.pipes = [i \in DOMAIN w.pipes |-> Move(w.pipes[i])]]

SpawnPair(bottom_pos) ==
  << PipeBundle(Px(PIPE_HEIGHT), F32(F32(bottom_pos + Px(PIPE_HEIGHT)) + Px(PIPE_GAP)), TRUE),
     PipeBundle(Px(PIPE_HEIGHT), bottom_pos, FALSE) >>

\* commands.spawn_batch: the entities get fresh ids, an even one for the first of the batch
SpawnBatch(batch, now) == [k \in DOMAIN batch |-> batch[k] @@ [id |-> 2 * now + k - 1]]

handle_pipe_spawn(w, bottom_pos) ==
  LET t == TimerTick(w.timer, Delta)
  IN  IF ~t.finished
        THEN [w EXCEPT !.timer = t]
        ELSE [w EXCEPT !.timer = t, !.spawn = @ \o SpawnBatch(SpawnPair(bottom_pos), w.now)]

DespawnLimit == -Px(WINDOW_SIZE_X)

handle_pipe_despawn(w) ==
  [w EXCEPT !.despawn = @ \cup { i \in DOMAIN w.pipes : w.pipes[i].x < DespawnLimit }]

Collides(w) ==
  \E i \in DOMAIN w.pipes : Intersects(Aabb(w.players[1]), Aabb(w.pipes[i]))

check_player_pipe_collission(w) ==
  IF HasSingle(w) /\ Collides(w)
    THEN [w EXCEPT !.next = "GameOver", !.cause = @ \cup {"hit"}]
    ELSE w

\* a faulty bounds test: the bottom edge of the window is taken to be y = 0
BelowScreen_Origin(p) == p.y < 0

BelowScreen(p) == p.y < -Px(WINDOW_SIZE_Y) \div 2

AboveCeiling(p) == F32(p.y - Px(CEILING_MARGIN)) > Px(WINDOW_SIZE_Y) \div 2

check_player_screen_bounds(w) ==
  IF ~HasSingle(w) THEN w
  ELSE LET p == w.players[1]
           w1 == IF BelowScreen(p) THEN [w EXCEPT !.next = "GameOver", !.cause = @ \cup {"fell"}]
                 ELSE w
       IN  IF AboveCeiling(p) THEN [w1 EXCEPT !.players[1].vy = 0] ELSE w1

PlayerLeft(p) == F32(p.x - p.sx \div 2)

PipeRight(q) == F32(q.x + q.sx \div 2)

Passed(q, p) == PipeRight(q) < PlayerLeft(p)

Scores(q, p) == q.give_score /\ Passed(q, p)

\* a faulty scoring system: the give_score flag is not cleared
give_score_when_over_player_KeepFlag(w) ==
  IF ~HasSingle(w) THEN w
  ELSE [w EXCEPT !.score = @ + Cardinality({ i \in DOMAIN w.pipes :
                                               Scores(w.pipes[i], w.players[1]) })]

give_score_when_over_player(w) ==
  IF ~HasSingle(w) THEN w
  ELSE LET p == w.players[1]
           given == { i \in DOMAIN w.pipes : Scores(w.pipes[i], p) }
       IN  [w EXCEPT !.pipes = [i \in DOMAIN w.pipes |->
                                  IF i \in given
                                    THEN [w.pipes[i] EXCEPT !.give_score = FALSE]
                                    ELSE w.pipes[i]],
                     !.score = @ + Cardinality(given)]

update_score(w) == [w EXCEPT !.text = Format(w.score)]

RunSystem(name, w, bottom_pos) ==
  CASE name = "apply_acceleration" -> apply_acceleration(w)
    [] name = "apply_velocity" -> apply_velocity(w)
    [] name = "handle_pipe_spawn" -> handle_pipe_spawn(w, bottom_pos)
    [] name = "handle_pipe_despawn" -> handle_pipe_despawn(w)
    [] name = "check_player_pipe_collission" -> check_player_pipe_collission(w)
    [] name = "check_player_screen_bounds" -> check_player_screen_bounds(w)
    [] name = "give_score_when_over_player" -> give_score_when_over_player(w)
    [] name = "update_score" -> update_score(w)

RECURSIVE RunSystems(_, _, _)
RunSystems(order, w, bottom_pos) ==
  IF order = << >> THEN w
  ELSE RunSystems(Tail(order), RunSystem(Head(order), w, bottom_pos), bottom_pos)

RECURSIVE Remaining(_, _, _)
Remaining(ps, gone, i) ==
  IF i > Len(ps) THEN << >>
  ELSE (IF i \in gone THEN << >> ELSE << ps[i] >>) \o Remaining(ps, gone, i + 1)

\* the Commands of the tick, applied when the schedule ends
ApplyDeferred(w) ==
  [w EXCEPT !.pipes = Remaining(w.pipes, w.despawn, 1) \o w.spawn,
            !.spawn = << >>, !.despawn = {}]

(***************************************************************************)
(* The order of the eight systems in one run of FixedUpdate.  They are     *)
(* registered without ordering constraints, so the schedule may run them  *)
(* in any order.  Only these relative orders change the result: the order *)
(* of the three systems that touch the player's Velocity (phys), whether  *)
(* despawn (d), collision (c) and scoring (g) read the Transforms after   *)
(* apply_velocity wrote them, and whether update_score (u) reads the      *)
(* score after scoring wrote it.  phys is fixed when the schedule is       *)
(* built; d, c, g and u are drawn in every tick from ReaderOrders: all     *)
(* four late, all four early, or exactly one of them early.                *)
(***************************************************************************)
ReaderOrders ==
  { o \in [{"d", "c", "g", "u"} -> BOOLEAN] :
      Cardinality({ k \in DOMAIN o : ~o[k] }) \in {0, 1, 4} }

PhysOrders ==
  { o \in [1..3 -> PhysSystems] : \A i, j \in 1..3 : i # j => o[i] # o[j] }

Readers(d, c, g, after) ==
  (IF d = after THEN << "handle_pipe_despawn" >> ELSE << >>)
    \o (IF c = after THEN << "check_player_pipe_collission" >> ELSE << >>)
    \o (IF g = after THEN << "give_score_when_over_player" >> ELSE << >>)

Slot(name, d, c, g) ==
  IF name = "apply_velocity"
    THEN Readers(d, c, g, FALSE) \o << name >> \o Readers(d, c, g, TRUE)
    ELSE << name >>

TickOrder(phys, d, c, g, u) ==
  (IF u THEN << >> ELSE << "update_score" >>)
    \o << "handle_pipe_spawn" >>
    \o Slot(phys[1], d, c, g) \o Slot(phys[2], d, c, g) \o Slot(phys[3], d, c, g)
    \o (IF u THEN << "update_score" >> ELSE << >>)

(***************************************************************************)
(* Schedules run on state transitions and in Update.                       *)
(***************************************************************************)
\* OnEnter(InGame)
on_enter_game(ps) == Append(ps, make_player)

\* a faulty on_game_over: the player is not despawned
on_game_over_Keep(ps) == ps

\* OnEnter(GameOver): Single<Entity, With<Player>>
on_game_over(ps) == IF Len(ps) = 1 THEN << >> ELSE ps

\* a faulty reset: the elapsed time is left as it is
TimerReset_Keep(t) == t

\* Timer::reset
TimerReset(t) == [t EXCEPT !.elapsed = 0, !.finished = FALSE]

\* a faulty restart: the score is not set to 0
on_game_restart_KeepScore(w) ==
  ApplyDeferred([w EXCEPT !.despawn = DOMAIN w.pipes, !.timer = TimerReset(w.timer)])

\* OnExit(GameOver)
on_game_restart(w) ==
  ApplyDeferred([w EXCEPT !.despawn = DOMAIN w.pipes, !.timer = TimerReset(w.timer), !.score = 0])

\* a faulty jump: JUMP_STRENGTH is added to the velocity
handle_movement_Accumulate(ps, space) ==
  IF Len(ps) = 1 /\ space THEN [ps EXCEPT ![1].vy = @ + Px(JUMP_STRENGTH)] ELSE ps

\* Update, run_if(in_state(InGame))
handle_movement(ps, space) ==
  IF Len(ps) = 1 /\ space THEN [ps EXCEPT ![1].vy = Px(JUMP_STRENGTH)] ELSE ps

\* Update, run_if(in_state(GameOver))
restart_on_r(n, r) == IF r THEN "InGame" ELSE n

(***************************************************************************)
(* The state machine.                                                      *)
(***************************************************************************)
Init ==
  /\ state = "InGame"
  /\ next = Unchanged
  /\ players = on_enter_game(<< >>)
  /\ pipes = << >>
  /\ score = 0
  /\ text = Format(0)
  /\ timer = NewTimer
  /\ physOrder \in PhysOrders
  /\ pc = "StateTransition"
  /\ ticksLeft = 0
  /\ roundTicks = 0
  /\ idle = 0
  /\ cause = {}
  /\ last = [step |-> "Startup"]

\* StateTransition with nothing pending
NoTransition ==
  /\ pc = "StateTransition"
  /\ next = Unchanged
  /\ pc' = "FixedUpdate"
  /\ ticksLeft' = TicksPerFrame
  /\ last' = [step |-> "NoTransition"]
  /\ UNCHANGED << state, next, players, pipes, score, text, timer, physOrder, roundTicks, idle,
                  cause >>

\* StateTransition InGame -> GameOver: OnEnter(GameOver)
EnterGameOver ==
  /\ pc = "StateTransition"
  /\ next = "GameOver"
  /\ state = "InGame"
  /\ state' = "GameOver"
  /\ next' = Unchanged
  /\ players' = on_game_over(players)
  /\ pc' = "FixedUpdate"
  /\ ticksLeft' = TicksPerFrame
  /\ last' = [step |-> "EnterGameOver", cause |-> cause]
  /\ cause' = {}
  /\ UNCHANGED << pipes, score, text, timer, physOrder, roundTicks, idle >>

\* StateTransition GameOver -> InGame: OnExit(GameOver) = on_game_restart, then OnEnter(InGame)
Restart ==
  /\ pc = "StateTransition"
  /\ next = "InGame"
  /\ state = "GameOver"
  /\ state' = "InGame"
  /\ next' = Unchanged
  /\ \E w \in { on_game_restart(World) } :
       /\ pipes' = w.pipes
       /\ timer' = w.timer
       /\ score' = w.score
  /\ players' = on_enter_game(players)
  /\ roundTicks' = 0
  /\ idle' = 0
  /\ cause' = {}
  /\ pc' = "FixedUpdate"
  /\ ticksLeft' = TicksPerFrame
  /\ last' = [step |-> "Restart"]
  /\ UNCHANGED << text, physOrder >>

\* rng() is called only in a tick in which the timer finishes
Draws(t) == IF TimerTick(t, Delta).finished THEN BottomPositions ELSE { BottomLow }

\* one run of FixedUpdate while InGame, with the orders of the systems and the values of
\* rng() taken from the given sets, in a round of at most limit ticks
TickWith(orders, draws, limit) ==
  /\ pc = "FixedUpdate"
  /\ ticksLeft > 0
  /\ state = "InGame"
  /\ roundTicks < limit
  /\ \E o \in orders, bottom_pos \in draws :
       \E w \in { ApplyDeferred(RunSystems(TickOrder(physOrder, o.d, o.c, o.g, o.u), World,
                                            bottom_pos)) } :
           /\ players' = w.players
           /\ pipes' = w.pipes
           /\ score' = w.score
           /\ text' = w.text
           /\ timer' = w.timer
           /\ next' = w.next
           /\ cause' = w.cause
           /\ last' = [step |-> "FixedTick"]
  /\ ticksLeft' = ticksLeft - 1
  /\ roundTicks' = roundTicks + 1
  /\ UNCHANGED << state, physOrder, pc, idle >>

\* one run of FixedUpdate while InGame
FixedTick == TickWith(ReaderOrders, Draws(timer), MaxRoundTicks)

\* a faulty FixedUpdate: the systems have no run condition and run in GameOver too
FixedSkipped_Runs ==
  /\ pc = "FixedUpdate"
  /\ ticksLeft > 0
  /\ state = "GameOver"
  /\ \E o \in ReaderOrders :
       \E w \in { ApplyDeferred(RunSystems(TickOrder(physOrder, o.d, o.c, o.g, o.u), World,
                                            BottomLow)) } :
           /\ pipes' = w.pipes
           /\ score' = w.score
           /\ text' = w.text
           /\ timer' = w.timer
  /\ ticksLeft' = 0
  /\ last' = [step |-> "FixedSkipped"]
  /\ UNCHANGED << state, next, players, physOrder, pc, roundTicks, idle, cause >>

\* the runs of FixedUpdate of a frame in GameOver: the run condition is false
FixedSkipped ==
  /\ pc = "FixedUpdate"
  /\ ticksLeft > 0
  /\ state = "GameOver"
  /\ ticksLeft' = 0
  /\ last' = [step |-> "FixedSkipped"]
  /\ UNCHANGED << state, next, players, pipes, score, text, timer, physOrder, pc, roundTicks, idle,
                  cause >>

\* the values of just_pressed(Space) the model plays in this frame
SpaceKeys == IF state = "InGame" /\ (idle + 1) \notin TapGaps THEN { FALSE } ELSE BOOLEAN

\* a faulty Update: restart_on_r has no run condition
Update_RestartInAnyState ==
  /\ pc = "FixedUpdate"
  /\ ticksLeft = 0
  /\ \E space \in SpaceKeys, r \in BOOLEAN :
       /\ players' = IF state = "InGame" THEN handle_movement(players, space) ELSE players
       /\ next' = restart_on_r(next, r)
       /\ idle' = IF state = "InGame"
                    THEN (IF space THEN 0 ELSE IF idle < MaxTapGap THEN idle + 1 ELSE idle)
                    ELSE idle
       /\ cause' = IF r THEN cause \cup {"r"} ELSE cause
       /\ last' = [step |-> "Update", space |-> space, r |-> r]
  /\ pc' = "StateTransition"
  /\ UNCHANGED << state, pipes, score, text, timer, physOrder, ticksLeft, roundTicks >>

\* Update: the keyboard state of the frame is space (Space just pressed), r (R just released),
\* with space taken from the given set
UpdateWith(keys) ==
  /\ pc = "FixedUpdate"
  /\ ticksLeft = 0
  /\ \E space \in keys, r \in BOOLEAN :
       /\ players' = IF state = "InGame" THEN handle_movement(players, space) ELSE players
       /\ next' = IF state = "GameOver" THEN restart_on_r(next, r) ELSE next
       /\ idle' = IF state = "InGame"
                    THEN (IF space THEN 0 ELSE IF idle < MaxTapGap THEN idle + 1 ELSE idle)
                    ELSE idle
       /\ cause' = IF state = "GameOver" /\ r THEN cause \cup {"r"} ELSE cause
       /\ last' = [step |-> "Update", space |-> space, r |-> r]
  /\ pc' = "StateTransition"
  /\ UNCHANGED << state, pipes, score, text, timer, physOrder, ticksLeft, roundTicks >>

Update == UpdateWith(SpaceKeys)

Next ==
  \/ NoTransition
  \/ EnterGameOver
  \/ Restart
  \/ FixedTick
  \/ FixedSkipped
  \/ Update

Spec == Init /\ [][Next]_vars

(***************************************************************************)
(* The game of a player that presses Space in every frame from the start   *)
(* of a round and then lets go of it for the rest of the round: a third    *)
(* specification, of behaviours of the game in which the schedule runs     *)
(* apply_velocity, apply_acceleration, check_player_screen_bounds in this  *)
(* order and rng() returns the least value of its range.  Its rounds are   *)
(* long enough for the player to climb above the reach of every pipe.      *)
(***************************************************************************)
\* fixed ticks of one round after which this specification stops ticking
MaxClimbTicks == 960

ClimbOrder == << "apply_velocity", "apply_acceleration", "check_player_screen_bounds" >>

ClimbInit == Init /\ physOrder = ClimbOrder

ClimbTick == TickWith(ReaderOrders, { BottomLow }, MaxClimbTicks)

\* Space may be pressed in a frame of a round only if it was pressed in every earlier one
ClimbKeys == IF state = "InGame" /\ idle > 0 THEN { FALSE } ELSE BOOLEAN

ClimbUpdate == UpdateWith(ClimbKeys)

ClimbNext ==
  \/ NoTransition
  \/ EnterGameOver
  \/ Restart
  \/ ClimbTick
  \/ FixedSkipped
  \/ ClimbUpdate

ClimbSpec == ClimbInit /\ [][ClimbNext]_vars

(***************************************************************************)
(* The pipe pair as a function of bottom_pos: a specification in           *)
(* which the only step spawns the pair of handle_pipe_spawn for one of the *)
(* f32 values of the range of random_range, taken from windows of          *)
(* neighbouring values around the ends of the range and around the values  *)
(* at which a sum of handle_pipe_spawn changes its binade.                 *)
(***************************************************************************)
\* values on each side of a window's centre
GapSpread == 16

GapCentres == { BottomLow, -Px(256), 0, Px(1024 - PIPE_HEIGHT - PIPE_GAP), BottomHigh }

GapBottoms ==
  { b \in { c + k : c \in GapCentres, k \in -GapSpread .. GapSpread } :
      b >= BottomLow /\ b < BottomHigh /\ F32(b) = b }

GapSpawn ==
  /\ last.step = "Startup"
  /\ \E bottom_pos \in GapBottoms :
       /\ pipes' = SpawnBatch(SpawnPair(bottom_pos), roundTicks)
       /\ last' = [step |-> "Spawn", bottom_pos |-> bottom_pos]
  /\ UNCHANGED << state, next, players, score, text, timer, physOrder, pc, ticksLeft, roundTicks,
                  idle, cause >>

GapNext == GapSpawn

GapSpec == Init /\ [][GapNext]_vars

(***************************************************************************)
(* Vocabulary of the properties.  The geometry is restated here from the   *)
(* constants, so that the properties do not read the operators above.      *)
(***************************************************************************)
Range(seq) == { seq[i] : i \in DOMAIN seq }

Ids(ps) == { q.id : q \in Range(ps) }

\* the step taken is one run of FixedUpdate in InGame
IsTick == last'.step = "FixedTick"

\* the top pipes have the even ids
IsTop(q) == q.id % 2 = 0

\* pipe q as it is after the step, if it is still there
Later(q) == { r \in Range(pipes') : r.id = q.id }

HalfPlayer == Px(PLAYER_SIZE_X) \div 2

HalfPipe == Px(PIPE_WIDTH) \div 2

\* the pipe's right edge is strictly left of the player's left edge
LeftOfPlayer(q, p) == q.x + HalfPipe < p.x - HalfPlayer

XOverlap(p, q) == p.x - HalfPlayer <= q.x + HalfPipe /\ p.x + HalfPlayer >= q.x - HalfPipe

YOverlap(p, q) ==
  p.y - HalfPlayer <= q.y + q.sy \div 2 /\ p.y + HalfPlayer >= q.y - q.sy \div 2

Touches(ps, qs) == \E p \in Range(ps), q \in Range(qs) : XOverlap(p, q) /\ YOverlap(p, q)

Below(ps) == \E p \in Range(ps) : p.y < -Px(WINDOW_SIZE_Y) \div 2

Above(p) == p.y > Px(WINDOW_SIZE_Y) \div 2 + Px(CEILING_MARGIN)

\* the change of velocity.y that gravity makes in one tick
GravityStep == (-Px(GRAVITY_STRENGTH)) \div FIXED_HZ

PipeStep == Px(PIPE_SPEED) \div FIXED_HZ

TicksPerSpawn == TIMER_SECS * FIXED_HZ

FreshPlayer ==
  [ x |-> -Px(PLAYER_START_X), y |-> 0, sx |-> Px(PLAYER_SIZE_X), sy |-> Px(PLAYER_SIZE_Y),
    vx |-> 0, vy |-> 0, ax |-> 0, ay |-> -Px(GRAVITY_STRENGTH) ]

(***************************************************************************)
(* C1.  As stated: in every InGame tick the score rises by the number of   *)
(* pipes whose right edge became strictly left of the player's left edge   *)
(* in that tick (one point for each pipe passed).                          *)
(***************************************************************************)
BecamePassed ==
  { q \in Range(pipes) :
      /\ ~LeftOfPlayer(q, players[1])
      /\ \E r \in Later(q) : LeftOfPlayer(r, players'[1]) }

C1_ScorePerPipePassed == [][IsTick => score' = score + Cardinality(BecamePassed)]_vars

(***************************************************************************)
(* C1, amended.  Only a pipe with give_score (the top pipe of a pair)      *)
(* raises the score, by exactly 1 and once: in every InGame tick the score *)
(* rises by the number of pipes whose give_score flag was cleared; a       *)
(* cleared flag is never set again and a bottom pipe never has it; a flag  *)
(* is cleared only for a pipe that is strictly left of the player, and at  *)
(* the latest one tick after the pipe got there (the scoring system may    *)
(* run before or after the movement of the same tick).  No other step      *)
(* changes the score, but the restart, which sets it to 0.                 *)
(***************************************************************************)
Cleared == { q \in Range(pipes) : q.give_score /\ \E r \in Later(q) : ~r.give_score }

C1_TickScores ==
  /\ score' = score + Cardinality(Cleared)
  /\ \A q \in Range(pipes) :
       /\ q.give_score => IsTop(q) /\ Later(q) # {}
       /\ \A r \in Later(q) :
            /\ ~q.give_score => ~r.give_score
            /\ q.give_score /\ LeftOfPlayer(q, players[1]) => ~r.give_score
            /\ q.give_score /\ ~r.give_score => LeftOfPlayer(r, players'[1])

C1_OtherSteps ==
  /\ score' = IF last'.step = "Restart" THEN 0 ELSE score
  /\ \A q \in Range(pipes) : \A r \in Later(q) : r.give_score = q.give_score

C1_ScoreOncePerScoringPipe == [][IF IsTick THEN C1_TickScores ELSE C1_OtherSteps]_vars

\* a top pipe has raised the score to 1 and the round goes on
C1_Witness ==
  /\ state = "InGame"
  /\ next = Unchanged
  /\ score = 1
  /\ \E q \in Range(pipes) : IsTop(q) /\ ~q.give_score /\ LeftOfPlayer(q, players[1])

(***************************************************************************)
(* C2.  Collisions end the game: a tick in which the player's box meets a  *)
(* pipe's box (before and after the movement of the tick, so whenever the  *)
(* collision system runs) requests GameOver; a requested GameOver stays    *)
(* requested through every further tick and key input of the frame, and    *)
(* the next state transition sets the state to GameOver and despawns the   *)
(* player.                                                                 *)
(***************************************************************************)
C2_Step ==
  /\ IsTick /\ Touches(players, pipes) /\ Touches(players', pipes') => next' = "GameOver"
  /\ next = "GameOver" /\ state = "InGame" =>
       IF pc = "StateTransition"
         THEN state' = "GameOver" /\ players' = << >> /\ next' = Unchanged
         ELSE state' = "InGame" /\ next' = "GameOver"

C2_CollisionEndsGame == [][C2_Step]_vars

\* GameOver was entered after a collision, and the player is gone
C2_Witness ==
  /\ last.step = "EnterGameOver"
  /\ "hit" \in last.cause
  /\ state = "GameOver"
  /\ players = << >>

(***************************************************************************)
(* C3.  As stated: no pipe remains that lies entirely left of the window,  *)
(* that is, whose right edge x + PIPE_WIDTH/2 is less than -640.           *)
(***************************************************************************)
C3_NoPipeLeftOfWindow ==
  \A q \in Range(pipes) : ~(q.x + HalfPipe < -Px(WINDOW_SIZE_X) \div 2)

(***************************************************************************)
(* C4.  Restart: an R release seen in GameOver requests InGame, and the    *)
(* state transition that follows enters InGame with no pipes, score 0, a   *)
(* spawn timer with 0 elapsed time, and exactly one player, at (-320, 0)   *)
(* with zero velocity and gravity as its acceleration.                     *)
(***************************************************************************)
C4_Step ==
  /\ state = "GameOver" /\ last'.step = "Update" /\ last'.r => next' = "InGame"
  /\ state = "GameOver" /\ next = "InGame" =>
       /\ pc = "StateTransition"
       /\ state' = "InGame"
       /\ pipes' = << >>
       /\ score' = 0
       /\ timer'.elapsed = 0
       /\ ~timer'.finished
       /\ players' = << FreshPlayer >>

C4_Restart == [][C4_Step]_vars

\* InGame was re-entered from a round in which the score was not 0
C4_Witness ==
  /\ last.step = "Restart"
  /\ state = "InGame"
  /\ text # Format(0)
  /\ players = << FreshPlayer >>

(***************************************************************************)
(* C5.  The state is always InGame or GameOver and starts as InGame; it    *)
(* changes only in a state transition, to the requested state; GameOver is *)
(* requested only by an InGame tick in which the player's box met a pipe's *)
(* box or the player's y was below -360, and InGame is requested only by   *)
(* an R release seen in GameOver.                                          *)
(***************************************************************************)
C5_Step ==
  /\ state' # state => pc = "StateTransition" /\ next = state'
  /\ next' = "GameOver" /\ next # "GameOver" =>
       /\ IsTick
       /\ state = "InGame"
       /\ \/ Touches(players, pipes) \/ Touches(players', pipes')
          \/ Below(players) \/ Below(players')
  /\ next' = "InGame" /\ next # "InGame" =>
       /\ last'.step = "Update"
       /\ last'.r
       /\ state = "GameOver"

C5_TwoStates ==
  /\ state = "InGame"
  /\ [](state \in States /\ next \in States \cup {Unchanged} /\ next # state)
  /\ [][C5_Step]_vars

\* GameOver was entered because the player fell below the window
C5_Witness ==
  /\ last.step = "EnterGameOver"
  /\ last.cause = {"fell"}
  /\ state = "GameOver"

(***************************************************************************)
(* C6.  As stated: in every InGame tick velocity.y ends as its value at    *)
(* the start of the tick plus acceleration.y * dt.                         *)
(***************************************************************************)
C6_VelocityIntegratesAlways ==
  [][IsTick => players'[1].vy = players[1].vy + GravityStep]_vars

(***************************************************************************)
(* C6, amended.  In every InGame tick in which the player is not above the *)
(* ceiling line (y - 100 > 360) velocity.y ends as its value at the start  *)
(* plus acceleration.y * dt, for every order of the systems; in a tick in  *)
(* which check_player_screen_bounds finds the player above that line it    *)
(* ends as 0, or as acceleration.y * dt when the acceleration is applied   *)
(* after the check.  velocity.x and the acceleration never change.         *)
(***************************************************************************)
C6_Tick ==
  LET p == players[1]
      r == players'[1]
  IN  /\ Len(players) = 1 /\ Len(players') = 1
      /\ r.vx = p.vx /\ r.ax = p.ax /\ r.ay = p.ay
      /\ p.ay = -Px(GRAVITY_STRENGTH)
      /\ r.vy \in {p.vy + GravityStep, 0, GravityStep}
      /\ r.vy # p.vy + GravityStep => Above(p) \/ Above(r)

C6_VelocityIntegrates == [][IsTick => C6_Tick]_vars

\* the tick after a jump, below the ceiling line
C6_Witness ==
  /\ last.step = "FixedTick"
  /\ Len(players) = 1
  /\ ~Above(players[1])
  /\ players[1].vy = Px(JUMP_STRENGTH) + GravityStep

(***************************************************************************)
(* C7.  Position integrates velocity: in every InGame tick every pipe      *)
(* moves left by PIPE_SPEED * dt with its y unchanged, and the player's x  *)
(* stays at -320 while its y changes by dt times its velocity.y at the     *)
(* time apply_velocity runs (the value at the start of the tick, with or   *)
(* without the tick's acceleration, or after the ceiling rule reset it).   *)
(***************************************************************************)
C7_Tick ==
  LET p == players[1]
      r == players'[1]
      dy == (r.y - p.y) * FIXED_HZ
  IN  /\ \A q \in Range(pipes) : \A n \in Later(q) :
           n.x = q.x - PipeStep /\ n.x < q.x /\ n.y = q.y /\ n.vx = -Px(PIPE_SPEED) /\ n.vy = 0
      /\ r.x = p.x
      /\ dy \in {p.vy, p.vy + GravityStep, 0, GravityStep}
      /\ dy \notin {p.vy, p.vy + GravityStep} => Above(p)

C7_PositionIntegrates ==
  /\ [](\A p \in Range(players) : p.x = -Px(PLAYER_START_X))
  /\ [][IsTick => C7_Tick]_vars

\* a tick has moved a pipe and the player
C7_Witness ==
  /\ last.step = "FixedTick"
  /\ \E q \in Range(pipes) : q.x < Px(WINDOW_SIZE_X) \div 2
  /\ \E p \in Range(players) : p.y > 0

(***************************************************************************)
(* C8.  Jump: a Space press seen in Update while InGame sets the player's  *)
(* velocity.y to exactly JUMP_STRENGTH, whatever it was, and changes       *)
(* nothing else; in GameOver a Space press changes nothing (what Update    *)
(* does there depends on the R key alone).                                 *)
(***************************************************************************)
C8_Update ==
  /\ UNCHANGED << state, pipes, score, text, timer >>
  /\ state = "InGame" =>
       /\ next' = next
       /\ players' = IF last'.space
                       THEN << [players[1] EXCEPT !.vy = Px(JUMP_STRENGTH)] >>
                       ELSE players
  /\ state = "GameOver" =>
       /\ players' = players
       /\ next' = IF last'.r THEN "InGame" ELSE next

C8_Jump == [][last'.step = "Update" => C8_Update]_vars

\* a second jump, pressed while the player was still rising from the first
C8_Witness ==
  /\ last.step = "Update"
  /\ last.space
  /\ state = "InGame"
  /\ roundTicks = 2 * TicksPerFrame
  /\ players[1].vy = Px(JUMP_STRENGTH)
  /\ players[1].y > 0

(***************************************************************************)
(* C9.  As stated: in every InGame tick in which the player's x-extent     *)
(* overlaps that of a pipe pair (before and after the movement of the      *)
(* tick, so whenever the collision system runs), the player's box is       *)
(* inside the pair's gap or GameOver is requested.                         *)
(***************************************************************************)
\* the player's box is strictly between the bottom edge of top pipe q and the top edge of
\* the bottom pipe of its pair, PIPE_GAP below
InGap(p, q) ==
  /\ p.y + HalfPlayer < q.y - q.sy \div 2
  /\ p.y - HalfPlayer > q.y - q.sy \div 2 - Px(PIPE_GAP)

C9_Tick ==
  \A q \in Range(pipes) : \A r \in Later(q) :
    /\ IsTop(q)
    /\ XOverlap(players[1], q) /\ XOverlap(players'[1], r)
    /\ ~InGap(players[1], q) /\ ~InGap(players'[1], r)
    => next' = "GameOver"

C9_OnlyThroughGap == [][IsTick => C9_Tick]_vars

(***************************************************************************)
(* C10.  Pipes are spawned in pairs by a 2-second timer that advances by   *)
(* dt in every InGame tick and in no other step: a tick in which the timer *)
(* completes adds exactly two pipes, at x = 640 with velocity (-450, 0),   *)
(* the upper one with give_score and the lower one without; no other tick  *)
(* and no other step adds a pipe; the restart resets the timer, so that a  *)
(* round has no pipe before 2 seconds of its ticks have run.               *)
(***************************************************************************)
NewPipes == { r \in Range(pipes') : r.id \notin Ids(pipes) }

C10_Tick ==
  LET due == timer.elapsed + Delta >= TIMER_SECS * MICROS
  IN  /\ timer'.elapsed = (timer.elapsed + Delta) % (TIMER_SECS * MICROS)
      /\ timer'.finished = due
      /\ Len(pipes') = Cardinality(Ids(pipes) \cap Ids(pipes')) + Cardinality(NewPipes)
      /\ Cardinality(NewPipes) = IF due THEN 2 ELSE 0
      /\ \A r \in NewPipes :
           r.x = Px(WINDOW_SIZE_X) \div 2 /\ r.vx = -Px(PIPE_SPEED) /\ r.vy = 0
      /\ due => \E a, b \in NewPipes : a.give_score /\ ~b.give_score /\ a.y > b.y

C10_OtherSteps ==
  /\ NewPipes = {}
  /\ timer' = IF last'.step = "Restart" THEN [elapsed |-> 0, finished |-> FALSE] ELSE timer

C10_SpawnedInPairs ==
  /\ [](pipes # << >> => roundTicks >= TicksPerSpawn)
  /\ [][IF IsTick THEN C10_Tick ELSE C10_OtherSteps]_vars

\* the tick that completed the timer has added the first pair
C10_Witness ==
  /\ last.step = "FixedTick"
  /\ timer.finished
  /\ Len(pipes) = 2
  /\ roundTicks = TicksPerSpawn

(***************************************************************************)
(* C11.  As stated: for every bottom_pos of the range the bottom pipe's    *)
(* top edge is at bottom_pos and the top pipe's bottom edge is at          *)
(* bottom_pos + PIPE_GAP, so that the gap is exactly PIPE_GAP high; the    *)
(* gap lies inside [-360, 360], the bottom pipe reaches below -360 and the *)
(* top pipe above 360.                                                     *)
(***************************************************************************)
\* the edges of a pipe, as the collision check computes them
EdgeTop(q) == F32(q.y + Px(PIPE_HEIGHT) \div 2)

EdgeBottom(q) == F32(q.y - Px(PIPE_HEIGHT) \div 2)

Dist(a, b) == IF a < b THEN b - a ELSE a - b

\* 2^-13 pixels: the f32 rounding of the sums of handle_pipe_spawn and PipeBundle::new
GapTolerance == FP \div 8192

\* the spawned pairs: the pipe with give_score and the pipe without
GapPairs == { tb \in Range(pipes) \X Range(pipes) : tb[1].give_score /\ ~tb[2].give_score }

GapInWindow(t, b) ==
  /\ EdgeTop(b) >= -Px(WINDOW_SIZE_Y) \div 2
  /\ EdgeBottom(t) <= Px(WINDOW_SIZE_Y) \div 2
  /\ EdgeBottom(b) < -Px(WINDOW_SIZE_Y) \div 2
  /\ EdgeTop(t) > Px(WINDOW_SIZE_Y) \div 2

GapExact(t, b, bottom_pos) ==
  /\ EdgeTop(b) = bottom_pos
  /\ EdgeBottom(t) = bottom_pos + Px(PIPE_GAP)
  /\ EdgeBottom(t) - EdgeTop(b) = Px(PIPE_GAP)
  /\ GapInWindow(t, b)

C11_GapExactlyPipeGap ==
  last.step = "Spawn" =>
    /\ Len(pipes) = 2
    /\ GapPairs # {}
    /\ \A tb \in GapPairs : GapExact(tb[1], tb[2], last.bottom_pos)

(***************************************************************************)
(* C11, amended.  For every bottom_pos of the range the pair is one pipe   *)
(* with give_score and one without; the bottom pipe's top edge is at       *)
(* bottom_pos and the top pipe's bottom edge at bottom_pos + PIPE_GAP up   *)
(* to the rounding of the f32 sums that compute them, so that the gap is   *)
(* PIPE_GAP high to within 2^-13 pixels (and exactly PIPE_GAP high where   *)
(* bottom_pos is a multiple of 1/256); the gap lies inside [-360, 360],    *)
(* the bottom pipe reaches below -360 and the top pipe above 360.          *)
(***************************************************************************)
GapRounded(t, b, bottom_pos) ==
  /\ Dist(EdgeTop(b), bottom_pos) <= GapTolerance
  /\ Dist(EdgeBottom(t), bottom_pos + Px(PIPE_GAP)) <= GapTolerance
  /\ Dist(EdgeBottom(t) - EdgeTop(b), Px(PIPE_GAP)) <= GapTolerance
  /\ bottom_pos % (FP \div 256) = 0 => GapExact(t, b, bottom_pos)
  /\ GapInWindow(t, b)

C11_GapWithinRounding ==
  last.step = "Spawn" =>
    /\ Len(pipes) = 2
    /\ GapPairs # {}
    /\ \A tb \in GapPairs : GapRounded(tb[1], tb[2], last.bottom_pos)

\* a pair was spawned for the greatest bottom_pos of the windows, 135 - 2^-16
C11_Witness ==
  /\ last.step = "Spawn"
  /\ last.bottom_pos = BottomHigh - 1
  /\ Len(pipes) = 2

(***************************************************************************)
(* C12.  As stated, as a property of every step: once Space is pressed no  *)
(* more, the sprite falls until the game ends, and never hovers or rises.  *)
(* In every InGame tick after the last press the player's velocity.y gets  *)
(* smaller, or its y gets smaller, or GameOver is requested, or the player *)
(* is at a height that a pipe can reach (a later pipe may still end the    *)
(* game).  A tick that leaves the player as it was, above the top edge of  *)
(* the highest pipe that can be spawned, is a tick of hovering for ever:   *)
(* the next tick starts from the same player, and nothing can request      *)
(* GameOver.                                                               *)
(***************************************************************************)
PlayerFalls == players'[1].vy < players[1].vy \/ players'[1].y < players[1].y

\* the top edge of the top pipe of a pair is below bottom_pos + PIPE_HEIGHT + PIPE_GAP
HighestPipeEdge == Px(WINDOW_SIZE_Y) \div 2 + Px(PIPE_HEIGHT)

InReach(p) == p.y - HalfPlayer <= HighestPipeEdge

C12_FallsUntilGameOver ==
  [][IsTick /\ idle > 0 => PlayerFalls \/ next' = "GameOver" \/ InReach(players[1])]_vars

(***************************************************************************)
(* C13.  In every state (the state transitions are applied whole) there is *)
(* exactly one player if the state is InGame and none if it is GameOver,   *)
(* and never two: the systems with a Single player parameter, which run    *)
(* while InGame or on entering GameOver, find exactly one.                 *)
(***************************************************************************)
C13_ExactlyOnePlayer ==
  /\ Len(players) = IF state = "InGame" THEN 1 ELSE 0
  /\ pc = "StateTransition" /\ next = "GameOver" => Len(players) = 1

\* a second round has begun: the player of the first was despawned and a new one spawned
C13_Witness ==
  /\ last.step = "Restart"
  /\ state = "InGame"
  /\ Len(players) = 1
  /\ roundTicks = 0

(***************************************************************************)
(* C14.  While the state is GameOver the world is frozen: the step that    *)
(* enters GameOver and every step taken in GameOver, whatever keys are     *)
(* pressed, leave the pipes (their positions, flags and number), the       *)
(* score, the score text and the spawn timer as they were; only the        *)
(* restart transition, which leaves GameOver, changes them.                *)
(***************************************************************************)
C14_Step ==
  /\ state' = "GameOver" => UNCHANGED << pipes, score, text, timer >>
  /\ state = "GameOver" /\ state' = "GameOver" => UNCHANGED players

C14_GameOverFrozen == [][C14_Step]_vars

\* Space was pressed in GameOver, with pipes on the screen and a score
C14_Witness ==
  /\ state = "GameOver"
  /\ last.step = "Update"
  /\ last.space
  /\ ~last.r
  /\ Len(pipes) >= 4
  /\ score > 0
  /\ timer.elapsed > 0

(***************************************************************************)
(* C15.  As stated: at the end of every InGame tick, and throughout        *)
(* GameOver, the score text is "Score: N" for the current value N of the   *)
(* score, for every order of the FixedUpdate systems.                      *)
(***************************************************************************)
C15_TextShowsScore ==
  last.step = "FixedTick" \/ state = "GameOver" => text = << "Score: " >> \o Digits(score)

(***************************************************************************)
(* C16.  In every state there are at most 6 pipes (three pairs): a pair is *)
(* spawned every 2 s and lives for less than 6 s, and the restart removes  *)
(* all pipes.                                                              *)
(***************************************************************************)
C16_AtMostSixPipes == Len(pipes) <= 6 /\ Cardinality(Ids(pipes)) = Len(pipes)

\* the fourth pair of a round was spawned after the first was despawned: three pairs are alive
C16_Witness ==
  /\ state = "InGame"
  /\ roundTicks >= 4 * TicksPerSpawn
  /\ Len(pipes) = 6

====
